---- MODULE Spec2Model ----
(***************************************************************************)
(* Entity references of libcretonne (src/libcretonne/entities.rs): the     *)
(* opaque index entities Ebb, Inst, StackSlot and JumpTable, and the       *)
(* dual-mode Value reference that folds a Direct/Table tag into the low    *)
(* bit of its payload.                                                     *)
(*                                                                         *)
(* The 32-bit payload is modelled with BITS bits, so that u32::MAX is      *)
(* 2^BITS - 1 and every boundary of the encoding (u32::MAX / 2, the        *)
(* sentinel, the wrap-around of a multiplication) is inside the checked    *)
(* range.  usize is BITS bits wide on a target whose pointers are as wide  *)
(* as u32 and BITS + WIDER bits wide on a target whose pointers are wider  *)
(* (no product index * 2 of a u32 index overflows there, as on a 64-bit    *)
(* target); integer overflow panics in a build with overflow checks and    *)
(* wraps in a build without them.  Both are fixed per build and chosen in  *)
(* Init.                                                                   *)
(***************************************************************************)
EXTENDS Integers, Sequences, FiniteSets, TLC

\* Width of the u32 payload in the model.
BITS == 5

\* How many bits wider than u32 the usize of a wide-pointer target is.
WIDER == 1

VARIABLES
    usize_bits,       \* width of usize on the target
    overflow_checks,  \* TRUE: arithmetic overflow panics; FALSE: it wraps
    call,             \* the last constructor call: [op, arg]
    ret,              \* what that call returned: [status, kind, bits]
    obs               \* the last observation of ret: [op, variant, inst, index, text]

vars == <<usize_bits, overflow_checks, call, ret, obs>>

----------------------------------------------------------------------------
(* Machine integers *)

U32_MAX == 2^BITS - 1
U32 == 0 .. U32_MAX
UsizeBitsOfTargets == {BITS, BITS + WIDER}
USIZE_MAX == 2^usize_bits - 1
Usize == 0 .. USIZE_MAX

\* The result of an arithmetic operation whose mathematical value is x, in an
\* unsigned type of the given width: a panic with overflow checks, x modulo
\* 2^width without.
Arith(x, width) ==
    IF x < 2^width THEN [panic |-> FALSE, val |-> x]
    ELSE IF overflow_checks THEN [panic |-> TRUE, val |-> 0]
    ELSE [panic |-> FALSE, val |-> x % (2^width)]

\* `x as u32` for a usize x.
AsU32(x) == x % (2^BITS)

----------------------------------------------------------------------------
(* Results *)

Unset == [status |-> "unset", kind |-> "-", bits |-> 0]
Panic(k) == [status |-> "panic", kind |-> k, bits |-> 0]
Ok(k, b) == [status |-> "ok", kind |-> k, bits |-> b]
Some(k, b) == [status |-> "some", kind |-> k, bits |-> b]
None(k) == [status |-> "none", kind |-> k, bits |-> 0]

NoObs == [op |-> "unset", variant |-> "-", inst |-> 0, index |-> 0, text |-> <<>>]

\* An entity value is held in ret.
Holds(k) == ret.kind = k /\ ret.status \in {"ok", "some"}

----------------------------------------------------------------------------
(* Decimal formatting, as `{}` formats an unsigned integer *)

DigitChars == <<"0", "1", "2", "3", "4", "5", "6", "7", "8", "9">>

RECURSIVE Decimal(_)
Decimal(n) ==
    IF n < 10 THEN <<DigitChars[n + 1]>>
    ELSE Append(Decimal(n \div 10), DigitChars[(n % 10) + 1])

----------------------------------------------------------------------------
(* Ebb *)

NO_EBB == U32_MAX

Ebb_new(index) ==
    IF ~(index < U32_MAX) THEN Panic("Ebb")
    ELSE Ok("Ebb", AsU32(index))

\* Ebb::with_number with the sentinel accepted (n <= u32::MAX).
Ebb_with_number_inclusive(n) ==
    IF n <= U32_MAX THEN Some("Ebb", n)
    ELSE None("Ebb")

Ebb_with_number(n) ==
    IF n < U32_MAX THEN Some("Ebb", n)
    ELSE None("Ebb")

Ebb_index(e) == e

Ebb_fmt(e) == <<"e", "b", "b">> \o Decimal(e)

Ebb_default == Ok("Ebb", NO_EBB)

----------------------------------------------------------------------------
(* Inst *)

NO_INST == U32_MAX

Inst_new(index) ==
    IF ~(index < U32_MAX) THEN Panic("Inst")
    ELSE Ok("Inst", AsU32(index))

Inst_index(i) == i

Inst_fmt(i) == <<"i", "n", "s", "t">> \o Decimal(i)

Inst_default == Ok("Inst", NO_INST)

----------------------------------------------------------------------------
(* StackSlot *)

NO_STACK_SLOT == U32_MAX

\* StackSlot::new with the sentinel accepted (index <= u32::MAX).
StackSlot_new_inclusive(index) ==
    IF ~(index <= U32_MAX) THEN Panic("StackSlot")
    ELSE Ok("StackSlot", AsU32(index))

StackSlot_new(index) ==
    IF ~(index < U32_MAX) THEN Panic("StackSlot")
    ELSE Ok("StackSlot", AsU32(index))

StackSlot_index(s) == s

StackSlot_fmt(s) == <<"s", "s">> \o Decimal(s)

StackSlot_default == Ok("StackSlot", NO_STACK_SLOT)

----------------------------------------------------------------------------
(* JumpTable *)

NO_JUMP_TABLE == U32_MAX

JumpTable_new(index) ==
    IF ~(index < U32_MAX) THEN Panic("JumpTable")
    ELSE Ok("JumpTable", AsU32(index))

JumpTable_index(j) == j

JumpTable_fmt(j) == <<"j", "t">> \o Decimal(j)

JumpTable_default == Ok("JumpTable", NO_JUMP_TABLE)

----------------------------------------------------------------------------
(* Value *)

NO_VALUE == U32_MAX

\* direct_with_number with the table tag set (n * 2 + 1).
direct_with_number_tagged(n) ==
    IF n < U32_MAX \div 2 THEN
        LET doubled == Arith(n * 2, BITS)
            encoding == Arith(doubled.val + 1, BITS)
        IN  IF doubled.panic \/ encoding.panic THEN Panic("Value")
            ELSE IF ~(encoding.val < U32_MAX) THEN Panic("Value")
            ELSE Some("Value", encoding.val)
    ELSE None("Value")

direct_with_number(n) ==
    IF n < U32_MAX \div 2 THEN
        LET encoding == Arith(n * 2, BITS)
        IN  IF encoding.panic THEN Panic("Value")
            ELSE IF ~(encoding.val < U32_MAX) THEN Panic("Value")
            ELSE Some("Value", encoding.val)
    ELSE None("Value")

\* table_with_number without the table tag (n * 2).
table_with_number_untagged(n) ==
    IF n < U32_MAX \div 2 THEN
        LET encoding == Arith(n * 2, BITS)
        IN  IF encoding.panic THEN Panic("Value")
            ELSE IF ~(encoding.val < U32_MAX) THEN Panic("Value")
            ELSE Some("Value", encoding.val)
    ELSE None("Value")

\* table_with_number with the boundary accepted (n <= u32::MAX / 2).
table_with_number_inclusive(n) ==
    IF n <= U32_MAX \div 2 THEN
        LET doubled == Arith(n * 2, BITS)
            encoding == Arith(doubled.val + 1, BITS)
        IN  IF doubled.panic \/ encoding.panic THEN Panic("Value")
            ELSE IF ~(encoding.val < U32_MAX) THEN Panic("Value")
            ELSE Some("Value", encoding.val)
    ELSE None("Value")

table_with_number(n) ==
    IF n < U32_MAX \div 2 THEN
        LET doubled == Arith(n * 2, BITS)
            encoding == Arith(doubled.val + 1, BITS)
        IN  IF doubled.panic \/ encoding.panic THEN Panic("Value")
            ELSE IF ~(encoding.val < U32_MAX) THEN Panic("Value")
            ELSE Some("Value", encoding.val)
    ELSE None("Value")

new_direct(i) ==
    LET encoding == Arith(Inst_index(i) * 2, usize_bits)
    IN  IF encoding.panic THEN Panic("Value")
        ELSE IF ~(encoding.val < U32_MAX) THEN Panic("Value")
        ELSE Ok("Value", AsU32(encoding.val))

\* new_table without the table tag (index * 2).
new_table_untagged(index) ==
    LET encoding == Arith(index * 2, usize_bits)
    IN  IF encoding.panic THEN Panic("Value")
        ELSE IF ~(encoding.val < U32_MAX) THEN Panic("Value")
        ELSE Ok("Value", AsU32(encoding.val))

new_table(index) ==
    LET doubled == Arith(index * 2, usize_bits)
        encoding == Arith(doubled.val + 1, usize_bits)
    IN  IF doubled.panic \/ encoding.panic THEN Panic("Value")
        ELSE IF ~(encoding.val < U32_MAX) THEN Panic("Value")
        ELSE Ok("Value", AsU32(encoding.val))

\* expand with the parity test before the sentinel test.
expand_parity_first(v) ==
    LET index == v \div 2
    IN  IF v % 2 = 1
        THEN [NoObs EXCEPT !.op = "expand", !.variant = "Table", !.index = index]
        ELSE IF v = NO_VALUE
        THEN [NoObs EXCEPT !.op = "expand", !.variant = "None"]
        ELSE [NoObs EXCEPT !.op = "expand", !.variant = "Direct",
                           !.inst = Inst_new(index).bits]

\* ExpandedValue: Direct(Inst), Table(usize), None; "panic" when Inst::new
\* asserts.
expand(v) ==
    IF v = NO_VALUE THEN [NoObs EXCEPT !.op = "expand", !.variant = "None"]
    ELSE LET index == v \div 2
         IN  IF v % 2 = 0
             THEN LET i == Inst_new(index)
                  IN  IF i.status = "panic"
                      THEN [NoObs EXCEPT !.op = "expand", !.variant = "panic"]
                      ELSE [NoObs EXCEPT !.op = "expand", !.variant = "Direct",
                                         !.inst = i.bits]
             ELSE [NoObs EXCEPT !.op = "expand", !.variant = "Table",
                                !.index = index]

Value_fmt(v) ==
    LET e == expand(v)
    IN  CASE e.variant = "Direct" -> <<"v">> \o Decimal(e.inst)
          [] e.variant = "Table" -> <<"v", "x">> \o Decimal(e.index)
          [] e.variant = "None" -> <<"N", "O", "_", "V", "A", "L", "U", "E">>
          [] OTHER -> <<>>  \* expand panicked: nothing is written

Value_default == Ok("Value", NO_VALUE)

----------------------------------------------------------------------------
(* Calls *)

Returned(op, arg, r) ==
    /\ call' = [op |-> op, arg |-> arg]
    /\ ret' = r
    /\ obs' = NoObs
    /\ UNCHANGED <<usize_bits, overflow_checks>>

Observed(o) ==
    /\ obs' = o
    /\ UNCHANGED <<usize_bits, overflow_checks, call, ret>>

CallEbbNew == \E index \in Usize : Returned("Ebb::new", index, Ebb_new(index))
CallEbbWithNumber == \E n \in U32 : Returned("Ebb::with_number", n, Ebb_with_number(n))
CallEbbDefault == Returned("Ebb::default", 0, Ebb_default)
CallEbbIndex ==
    /\ Holds("Ebb")
    /\ Observed([NoObs EXCEPT !.op = "index", !.index = Ebb_index(ret.bits)])
CallEbbFmt ==
    /\ Holds("Ebb")
    /\ Observed([NoObs EXCEPT !.op = "to_string", !.text = Ebb_fmt(ret.bits)])

CallInstNew == \E index \in Usize : Returned("Inst::new", index, Inst_new(index))
CallInstDefault == Returned("Inst::default", 0, Inst_default)
CallInstIndex ==
    /\ Holds("Inst")
    /\ Observed([NoObs EXCEPT !.op = "index", !.index = Inst_index(ret.bits)])
CallInstFmt ==
    /\ Holds("Inst")
    /\ Observed([NoObs EXCEPT !.op = "to_string", !.text = Inst_fmt(ret.bits)])

CallStackSlotNew ==
    \E index \in Usize : Returned("StackSlot::new", index, StackSlot_new(index))
CallStackSlotDefault == Returned("StackSlot::default", 0, StackSlot_default)
CallStackSlotIndex ==
    /\ Holds("StackSlot")
    /\ Observed([NoObs EXCEPT !.op = "index", !.index = StackSlot_index(ret.bits)])
CallStackSlotFmt ==
    /\ Holds("StackSlot")
    /\ Observed([NoObs EXCEPT !.op = "to_string", !.text = StackSlot_fmt(ret.bits)])

CallJumpTableNew ==
    \E index \in Usize : Returned("JumpTable::new", index, JumpTable_new(index))
CallJumpTableDefault == Returned("JumpTable::default", 0, JumpTable_default)
CallJumpTableIndex ==
    /\ Holds("JumpTable")
    /\ Observed([NoObs EXCEPT !.op = "index", !.index = JumpTable_index(ret.bits)])
CallJumpTableFmt ==
    /\ Holds("JumpTable")
    /\ Observed([NoObs EXCEPT !.op = "to_string", !.text = JumpTable_fmt(ret.bits)])

CallDirectWithNumber ==
    \E n \in U32 : Returned("Value::direct_with_number", n, direct_with_number(n))
CallTableWithNumber ==
    \E n \in U32 : Returned("Value::table_with_number", n, table_with_number(n))
\* new_direct takes the instruction reference the program holds.
CallNewDirect ==
    /\ Holds("Inst")
    /\ Returned("Value::new_direct", ret.bits, new_direct(ret.bits))
CallNewTable ==
    \E index \in Usize : Returned("Value::new_table", index, new_table(index))
CallValueDefault == Returned("Value::default", 0, Value_default)
CallExpand ==
    /\ Holds("Value")
    /\ Observed(expand(ret.bits))
CallValueFmt ==
    /\ Holds("Value")
    /\ Observed([NoObs EXCEPT !.op = "to_string", !.text = Value_fmt(ret.bits)])

Init ==
    /\ usize_bits \in UsizeBitsOfTargets
    /\ overflow_checks \in BOOLEAN
    /\ call = [op |-> "none", arg |-> 0]
    /\ ret = Unset
    /\ obs = NoObs

Next ==
    \/ CallEbbNew
    \/ CallEbbWithNumber
    \/ CallEbbDefault
    \/ CallEbbIndex
    \/ CallEbbFmt
    \/ CallInstNew
    \/ CallInstDefault
    \/ CallInstIndex
    \/ CallInstFmt
    \/ CallStackSlotNew
    \/ CallStackSlotDefault
    \/ CallStackSlotIndex
    \/ CallStackSlotFmt
    \/ CallJumpTableNew
    \/ CallJumpTableDefault
    \/ CallJumpTableIndex
    \/ CallJumpTableFmt
    \/ CallDirectWithNumber
    \/ CallTableWithNumber
    \/ CallNewDirect
    \/ CallNewTable
    \/ CallValueDefault
    \/ CallExpand
    \/ CallValueFmt

Spec == Init /\ [][Next]_vars

----------------------------------------------------------------------------
(* Reading a printed reference back: the numeral after a prefix *)

DigitVal(c) ==
    CASE c = "0" -> 0 [] c = "1" -> 1 [] c = "2" -> 2 [] c = "3" -> 3
      [] c = "4" -> 4 [] c = "5" -> 5 [] c = "6" -> 6 [] c = "7" -> 7
      [] c = "8" -> 8 [] c = "9" -> 9 [] OTHER -> -1

\* A decimal numeral: digits only, at least one, no leading zero but in "0".
IsNumeral(d) ==
    /\ Len(d) >= 1
    /\ \A k \in 1 .. Len(d) : DigitVal(d[k]) >= 0
    /\ (Len(d) > 1 => d[1] # "0")

RECURSIVE NumeralVal(_)
NumeralVal(d) ==
    IF Len(d) = 0 THEN 0
    ELSE 10 * NumeralVal(SubSeq(d, 1, Len(d) - 1)) + DigitVal(d[Len(d)])

\* text is exactly the prefix followed by the decimal numeral of n.
IsText(text, prefix, n) ==
    /\ Len(text) > Len(prefix)
    /\ SubSeq(text, 1, Len(prefix)) = prefix
    /\ LET d == SubSeq(text, Len(prefix) + 1, Len(text))
       IN  IsNumeral(d) /\ NumeralVal(d) = n

\* text has the form v<N> or vx<N> for some numeral N.
IsValueForm(text) ==
    \/ /\ Len(text) >= 2
       /\ text[1] = "v"
       /\ IsNumeral(SubSeq(text, 2, Len(text)))
    \/ /\ Len(text) >= 3
       /\ text[1] = "v"
       /\ text[2] = "x"
       /\ IsNumeral(SubSeq(text, 3, Len(text)))

Present == ret.status \in {"ok", "some"}

----------------------------------------------------------------------------
(* Claims *)

\* C1: for every numeral i in 0 .. u32::MAX / 2 - 1, direct_with_number(i)
\* returns a present Value; expand() of it is Direct, holding the instruction
\* reference whose index() is i; its text is "v" followed by the decimal
\* numeral i.
C1_DirectWithNumber ==
    (call.op = "Value::direct_with_number" /\ call.arg <= U32_MAX \div 2 - 1) =>
        /\ ret.status = "some"
        /\ ret.kind = "Value"
        /\ (obs.op = "expand" =>
                obs.variant = "Direct" /\ Inst_index(obs.inst) = call.arg)
        /\ (obs.op = "to_string" => IsText(obs.text, <<"v">>, call.arg))

C1_Witness ==
    /\ call.op = "Value::direct_with_number"
    /\ call.arg = U32_MAX \div 2 - 1
    /\ obs.op = "to_string"
    /\ Len(obs.text) = 3

C3_NumeralRange ==
    /\ call.op = "Value::direct_with_number" =>
        /\ ret.status # "panic"
        /\ (ret.status = "none" <=> call.arg >= U32_MAX \div 2)
        /\ (ret.status = "some" => ret.bits = call.arg * 2)
    /\ call.op = "Value::table_with_number" =>
        /\ ret.status # "panic"
        /\ (ret.status = "none" <=> call.arg >= U32_MAX \div 2)
        /\ (ret.status = "some" => ret.bits = call.arg * 2 + 1)

C3_Witness ==
    /\ call.op = "Value::table_with_number"
    /\ call.arg = U32_MAX \div 2
    /\ ret.status = "none"
    /\ overflow_checks

\* C4: for every k < u32::MAX / 2, new_direct(Inst::new(k)) does not fault and
\* equals the Value in direct_with_number(k), and new_table(k) does not fault
\* and equals the Value in table_with_number(k).
C4_ConstructionPaths ==
    \A k \in 0 .. U32_MAX \div 2 - 1 :
        /\ (call.op = "Value::new_direct" /\ Inst_new(k) = Ok("Inst", call.arg)) =>
            /\ ret.status = "ok"
            /\ direct_with_number(k) = Some("Value", ret.bits)
        /\ (call.op = "Value::new_table" /\ call.arg = k) =>
            /\ ret.status = "ok"
            /\ table_with_number(k) = Some("Value", ret.bits)

C4_Witness ==
    /\ call.op = "Value::new_direct"
    /\ call.arg = U32_MAX \div 2 - 1
    /\ ret.status = "ok"

\* C5: NO_VALUE is never decoded as a table entry: expand() of it is None, its
\* text is the marker NO_VALUE, which has neither the form v<N> nor vx<N>, and
\* no constructor of Value returns NO_VALUE.
C5_Sentinel ==
    /\ (Holds("Value") /\ ret.bits = NO_VALUE) =>
        /\ (obs.op = "expand" => obs.variant = "None")
        /\ (obs.op = "to_string" =>
                /\ obs.text = <<"N", "O", "_", "V", "A", "L", "U", "E">>
                /\ ~IsValueForm(obs.text))
    /\ (/\ call.op \in {"Value::direct_with_number", "Value::table_with_number",
                        "Value::new_direct", "Value::new_table"}
        /\ Present)
           => ret.bits # NO_VALUE

C5_Witness ==
    /\ Holds("Value")
    /\ ret.bits = NO_VALUE
    /\ obs.op = "expand"

\* C6: every Value a constructor returns without faulting decodes to an
\* instruction index (Direct) or a table index (Table) strictly below
\* u32::MAX / 2.
C6_IndexBelowHalf ==
    (/\ call.op \in {"Value::direct_with_number", "Value::table_with_number",
                     "Value::new_direct", "Value::new_table"}
     /\ Present
     /\ obs.op = "expand") =>
        /\ (obs.variant = "Direct" => Inst_index(obs.inst) < U32_MAX \div 2)
        /\ (obs.variant = "Table" => obs.index < U32_MAX \div 2)

\* C7: for Ebb, Inst, StackSlot and JumpTable and every index x, new(x) faults
\* exactly when x >= u32::MAX; otherwise the result is not the type's sentinel
\* and index() of it is x.
C7_EntityNew ==
    call.op \in {"Ebb::new", "Inst::new", "StackSlot::new", "JumpTable::new"} =>
        /\ (ret.status = "panic" <=> call.arg >= U32_MAX)
        /\ (call.arg < U32_MAX =>
                /\ ret.status = "ok"
                /\ ret.bits # U32_MAX
                /\ (obs.op = "index" => obs.index = call.arg))

C7_Witness ==
    /\ call.op = "StackSlot::new"
    /\ call.arg = U32_MAX - 1
    /\ obs.op = "index"

\* C8: where usize is wider than u32, new_direct(r) for a non-sentinel r
\* faults exactly when r.index() * 2 >= u32::MAX and otherwise returns the
\* Value with payload r.index() * 2; new_table(t) faults exactly when
\* t * 2 + 1 >= u32::MAX and otherwise returns the Value with payload
\* t * 2 + 1.
C8_SemanticPrecondition ==
    usize_bits > BITS =>
        /\ (call.op = "Value::new_direct" /\ call.arg # NO_INST) =>
            /\ (ret.status = "panic" <=> Inst_index(call.arg) * 2 >= U32_MAX)
            /\ (ret.status # "panic" =>
                    ret = Ok("Value", Inst_index(call.arg) * 2))
        /\ call.op = "Value::new_table" =>
            /\ (ret.status = "panic" <=> call.arg * 2 + 1 >= U32_MAX)
            /\ (ret.status # "panic" => ret = Ok("Value", call.arg * 2 + 1))

\* C9: for every u32 numeral n, Ebb::with_number(n) never faults and returns
\* absent exactly when n = u32::MAX; otherwise it returns the reference equal
\* to Ebb::new(n), whose index() is n and whose text is "ebb" followed by the
\* decimal numeral n.
C9_EbbWithNumber ==
    call.op = "Ebb::with_number" =>
        /\ ret.status # "panic"
        /\ (ret.status = "none" <=> call.arg = U32_MAX)
        /\ (call.arg # U32_MAX =>
                /\ ret.status = "some"
                /\ Ebb_new(call.arg) = Ok("Ebb", ret.bits)
                /\ (obs.op = "index" => obs.index = call.arg)
                /\ (obs.op = "to_string" =>
                        IsText(obs.text, <<"e", "b", "b">>, call.arg)))

C9_Witness ==
    /\ call.op = "Ebb::with_number"
    /\ call.arg = U32_MAX - 1
    /\ obs.op = "to_string"

\* C10: a Value that new_direct (of a non-sentinel instruction reference) or
\* new_table returns without faulting prints as v<N> or vx<N>, and
\* direct_with_number(N), table_with_number(N) returns that Value.
C10_PrintThenParse ==
    /\ (/\ call.op = "Value::new_direct"
        /\ call.arg # NO_INST
        /\ Present
        /\ obs.op = "to_string") =>
            \E n \in U32 :
                /\ IsText(obs.text, <<"v">>, n)
                /\ direct_with_number(n) = Some("Value", ret.bits)
    /\ (/\ call.op = "Value::new_table"
        /\ Present
        /\ obs.op = "to_string") =>
            \E n \in U32 :
                /\ IsText(obs.text, <<"v", "x">>, n)
                /\ table_with_number(n) = Some("Value", ret.bits)

====
